---------------------------- MODULE Spec2Model ----------------------------
(***************************************************************************)
(* HSN code validation and suggestion: HSNDataHandler (the catalog),      *)
(* HSNValidator (format / existence / hierarchy checks) and HSNSuggester  *)
(* (similarity ranking with keyword fallback).                            *)
(*                                                                         *)
(* Strings are sequences of one-character strings, so that cleaning,      *)
(* stripping, prefixes, lower-casing and substring search are computed.   *)
(***************************************************************************)
EXTENDS Integers, Sequences, FiniteSets, TLC

VARIABLES
    hsn_data,                   \* HSNDataHandler.hsn_data: rows [HSNCode, Description]
    hsn_lookup,                 \* HSNDataHandler.hsn_lookup: code -> [description, index]
    descriptions,               \* HSNSuggester.descriptions: the texts the index was fitted on
    vocabulary,                 \* HSNSuggester.vectorizer.vocabulary_: the terms of the index
    description_vectors,        \* HSNSuggester.description_vectors: term counts per description
    min_similarity_threshold,   \* HSNSuggester.min_similarity_threshold, in hundredths
    pc,                         \* "idle": waiting for a call; "returned": a call has returned
    op,                         \* the operation of the last call
    args,                       \* its arguments
    result,                     \* what it returned
    index_queries,              \* similarity-index queries made by the last call
    keyword_searches,           \* search_by_description calls made by the last call
    catalog_lookups,            \* get_hsn_info calls made by the last call
    calls                       \* per concurrent caller: the call it is in and its locals

vars == <<hsn_data, hsn_lookup, descriptions, vocabulary, description_vectors,
          min_similarity_threshold,
          pc, op, args, result, index_queries, keyword_searches, catalog_lookups, calls>>

-----------------------------------------------------------------------------
(* Bounds of the model *)

\* rows of the spreadsheet the catalog is loaded from, when only the validator is called
MaxRows == 4
\* rows of the sheets drawn from the pool of rows, when the suggester is called too
\* (the sheets of TiedSheets, given row by row, have three)
MaxIndexedRows == 2
\* codes in one validate_multiple batch
MaxBatch == 2
\* largest top_k of a suggestion call
MaxTopK == 2
\* callers that share the validator and the suggester
MaxCallers == 2

-----------------------------------------------------------------------------
(* Characters and strings *)

Digits == {"0", "1", "2", "3", "4", "5", "6", "7", "8", "9"}

Whitespace == {" "}

\* Python None / pandas NaN: a value no string of characters equals
None == <<"None">>

LowerChar(c) ==
    CASE c = "H" -> "h"
      [] c = "L" -> "l"
      [] c = "O" -> "o"
      [] OTHER -> c

Lower(s) == [i \in 1..Len(s) |-> LowerChar(s[i])]

IsDigitChar(c) == c \in Digits

IsSpaceChar(c) == c \in Whitespace

\* str.strip(): leading and trailing whitespace removed
RECURSIVE LStrip(_)
LStrip(s) ==
    IF s # <<>> /\ IsSpaceChar(Head(s)) THEN LStrip(Tail(s)) ELSE s

RECURSIVE RStrip(_)
RStrip(s) ==
    IF s # <<>> /\ IsSpaceChar(s[Len(s)]) THEN RStrip(SubSeq(s, 1, Len(s) - 1)) ELSE s

Strip(s) == RStrip(LStrip(s))

\* str.replace(' ', '')
RemoveSpaces(s) ==
    LET NotSpace(c) == c # " " IN SelectSeq(s, NotSpace)

\* s[:n] for n >= 0
Take(s, n) == SubSeq(s, 1, IF n < Len(s) THEN n ELSE Len(s))

\* needle in hay (str.contains with regex=False)
Contains(hay, needle) ==
    \E i \in 1..(Len(hay) - Len(needle) + 1) :
        SubSeq(hay, i, i + Len(needle) - 1) = needle

\* the maximal runs in s of characters that are not separators, in order, from
\* position i on
RECURSIVE RunsFrom(_, _, _)
RunsFrom(s, separators, i) ==
    LET kept == {j \in i..Len(s) : s[j] \notin separators}
    IN  IF kept = {} THEN <<>>
        ELSE LET first == CHOOSE j \in kept : \A k \in kept : j <= k
                 stops == {j \in first..Len(s) : s[j] \in separators}
                 last == IF stops = {} THEN Len(s)
                         ELSE (CHOOSE j \in stops : \A k \in stops : j <= k) - 1
             IN  <<SubSeq(s, first, last)>> \o RunsFrom(s, separators, last + 1)

RunsOf(s, separators) == RunsFrom(s, separators, 1)

\* str.split(): the maximal runs of non-whitespace characters, in order
Split(s) == RunsOf(s, Whitespace)

-----------------------------------------------------------------------------
(* HSNDataHandler: the catalog *)

\* _clean_data: dropna on both columns
DropNa(rows) ==
    LET Present(r) == r.HSNCode # None /\ r.Description # None
    IN  SelectSeq(rows, Present)

\* _clean_data: codes stripped and spaces removed, descriptions stripped
CleanRow(r) ==
    [HSNCode |-> RemoveSpaces(Strip(r.HSNCode)), Description |-> Strip(r.Description)]

\* _clean_data: drop_duplicates(subset=['HSNCode']) keeps the first row of each code
RECURSIVE DropDuplicates(_, _)
DropDuplicates(rows, kept) ==
    IF rows = <<>> THEN kept
    ELSE IF \E i \in 1..Len(kept) : kept[i].HSNCode = Head(rows).HSNCode
         THEN DropDuplicates(Tail(rows), kept)
         ELSE DropDuplicates(Tail(rows), Append(kept, Head(rows)))

clean_data(rows) ==
    LET present == DropNa(rows)
        cleaned == [i \in 1..Len(present) |-> CleanRow(present[i])]
    IN  DropDuplicates(cleaned, <<>>)

\* the lookup misses the first row of the sheet
create_lookup_skipping_first(data) ==
    LET codes == {data[i].HSNCode : i \in 2..Len(data)}
        Last(c) == CHOOSE i \in 2..Len(data) :
                       /\ data[i].HSNCode = c
                       /\ \A j \in 2..Len(data) : data[j].HSNCode = c => j <= i
    IN  [c \in codes |-> [description |-> data[Last(c)].Description, index |-> Last(c) - 1]]

\* _create_lookup: each row in order writes hsn_lookup[code]; a later row overwrites
create_lookup(data) ==
    LET codes == {data[i].HSNCode : i \in 1..Len(data)}
        Last(c) == CHOOSE i \in 1..Len(data) :
                       /\ data[i].HSNCode = c
                       /\ \A j \in 1..Len(data) : data[j].HSNCode = c => j <= i
    IN  [c \in codes |-> [description |-> data[Last(c)].Description, index |-> Last(c) - 1]]

\* load_data: hsn_data is replaced by the cleaned rows of the sheet; _create_lookup
\* writes their entries into the dict made in __init__, so that on a later call the
\* entries of codes the sheet no longer holds stay as they were
load_data(lookup, rows) ==
    LET data == clean_data(rows)
        written == create_lookup(data)
    IN  [hsn_data |-> data,
         hsn_lookup |-> [c \in DOMAIN lookup \cup DOMAIN written |->
                            IF c \in DOMAIN written THEN written[c] ELSE lookup[c]]]

\* get_hsn_info: <<>> for None, <<info>> for a found code
\* the lookup answers with the longest catalog code the given code starts with
get_hsn_info_prefix_match(lookup, hsn_code) ==
    LET code == Strip(hsn_code)
        starts == {c \in DOMAIN lookup : Len(c) <= Len(code) /\ SubSeq(code, 1, Len(c)) = c}
        longest == CHOOSE c \in starts : \A d \in starts : Len(d) <= Len(c)
    IN  IF starts # {}
        THEN <<[hsn_code |-> code, description |-> lookup[longest].description]>>
        ELSE <<>>

get_hsn_info(lookup, hsn_code) ==
    LET code == Strip(hsn_code)
    IN  IF code \in DOMAIN lookup
        THEN <<[hsn_code |-> code, description |-> lookup[code].description]>>
        ELSE <<>>

-----------------------------------------------------------------------------
(* HSNValidator *)

\* a length of 3 is taken for a legal one
valid_lengths_with_3 == <<2, 3, 4, 6, 8>>

valid_lengths == <<2, 4, 6, 8>>

InSeq(x, s) == \E i \in 1..Len(s) : s[i] = x

\* re.sub(r'[^0-9]', '', str(hsn_code))
CleanCode(hsn_code) == SelectSeq(hsn_code, IsDigitChar)

\* str.isdigit(): non-empty and every character a digit
IsDigitStr(s) == s # <<>> /\ \A i \in 1..Len(s) : IsDigitChar(s[i])

validate_format(hsn_code) ==
    LET cleaned_code == CleanCode(hsn_code)
    IN  IF ~IsDigitStr(cleaned_code)
        THEN [valid |-> FALSE,
              error |-> <<"HSN code must contain only numbers">>,
              original_code |-> hsn_code,
              cleaned_code |-> cleaned_code]
        ELSE IF ~InSeq(Len(cleaned_code), valid_lengths)
        THEN [valid |-> FALSE,
              error |-> <<"HSN code must be 2, 4, 6, 8 digits. Got", Len(cleaned_code), "digits">>,
              original_code |-> hsn_code,
              cleaned_code |-> cleaned_code]
        ELSE [valid |-> TRUE,
              original_code |-> hsn_code,
              cleaned_code |-> cleaned_code,
              length |-> Len(cleaned_code)]

validate_existence(lookup, hsn_code) ==
    LET hsn_info == get_hsn_info(lookup, hsn_code)
    IN  IF hsn_info # <<>>
        THEN [exists |-> TRUE,
              hsn_code |-> hsn_info[1].hsn_code,
              description |-> hsn_info[1].description]
        ELSE [exists |-> FALSE, hsn_code |-> hsn_code, description |-> None]

\* validate_hierarchical reports a code valid with every required parent missing
validate_hierarchical_ignores_missing(lookup, hsn_code) ==
    LET lengths == SelectSeq(<<2, 4, 6>>, LAMBDA l : Len(hsn_code) > l)
        parents == [i \in 1..Len(lengths) |-> SubSeq(hsn_code, 1, lengths[i])]
        Found(c) == get_hsn_info(lookup, c) # <<>>
        Missing(c) == ~Found(c)
    IN  [hierarchical_valid |-> TRUE,
         parent_codes |-> parents,
         valid_parents |-> SelectSeq(parents, Found),
         missing_parents |-> SelectSeq(parents, Missing)]

\* the parent check starts at the 4-digit prefix
parent_lengths_without_2 == <<4, 6>>

\* the parent check stops at the 4-digit prefix
parent_lengths_without_6 == <<2, 4>>

\* the prefix lengths validate_hierarchical checks
parent_lengths == <<2, 4, 6>>

\* the length test of the parent loop admits the code itself
RECURSIVE HierarchyLoop_inclusive(_, _, _, _)
HierarchyLoop_inclusive(lookup, hsn_code, lengths, acc) ==
    IF lengths = <<>> THEN acc
    ELSE LET length == Head(lengths)
             parent_code == SubSeq(hsn_code, 1, length)
         IN  IF Len(hsn_code) >= length
             THEN IF get_hsn_info(lookup, parent_code) # <<>>
                  THEN HierarchyLoop_inclusive(lookup, hsn_code, Tail(lengths),
                           <<Append(acc[1], parent_code), Append(acc[2], parent_code), acc[3]>>)
                  ELSE HierarchyLoop_inclusive(lookup, hsn_code, Tail(lengths),
                           <<Append(acc[1], parent_code), acc[2], Append(acc[3], parent_code)>>)
             ELSE HierarchyLoop_inclusive(lookup, hsn_code, Tail(lengths), acc)

\* the loop over [2, 4, 6]: state <<parent_codes, valid_parents, missing_parents>>
RECURSIVE HierarchyLoop(_, _, _, _)
HierarchyLoop(lookup, hsn_code, lengths, acc) ==
    IF lengths = <<>> THEN acc
    ELSE LET length == Head(lengths)
             parent_code == SubSeq(hsn_code, 1, length)
         IN  IF Len(hsn_code) > length
             THEN IF get_hsn_info(lookup, parent_code) # <<>>
                  THEN HierarchyLoop(lookup, hsn_code, Tail(lengths),
                           <<Append(acc[1], parent_code), Append(acc[2], parent_code), acc[3]>>)
                  ELSE HierarchyLoop(lookup, hsn_code, Tail(lengths),
                           <<Append(acc[1], parent_code), acc[2], Append(acc[3], parent_code)>>)
             ELSE HierarchyLoop(lookup, hsn_code, Tail(lengths), acc)

validate_hierarchical(lookup, hsn_code) ==
    IF Len(hsn_code) <= 2
    THEN [hierarchical_valid |-> TRUE,
          parent_codes |-> <<>>, valid_parents |-> <<>>, missing_parents |-> <<>>]
    ELSE LET r == HierarchyLoop(lookup, hsn_code, parent_lengths, <<<<>>, <<>>, <<>>>>)
         IN  [hierarchical_valid |-> Len(r[3]) = 0,
              parent_codes |-> r[1], valid_parents |-> r[2], missing_parents |-> r[3]]

\* the format failure is returned without its error
format_failure_without_error(format_result) ==
    [overall_valid |-> FALSE,
     hsn_code |-> format_result.original_code,
     cleaned_code |-> format_result.cleaned_code,
     format_valid |-> FALSE,
     exists |-> FALSE,
     hierarchical_valid |-> FALSE,
     validation_details |->
         [format |-> format_result,
          existence |-> [exists |-> FALSE],
          hierarchical |-> [hierarchical_valid |-> FALSE]]]

\* what full_validation returns when validate_format fails
format_failure(format_result) ==
    [overall_valid |-> FALSE,
     hsn_code |-> format_result.original_code,
     cleaned_code |-> format_result.cleaned_code,
     error |-> format_result.error,
     format_valid |-> FALSE,
     exists |-> FALSE,
     hierarchical_valid |-> FALSE,
     validation_details |->
         [format |-> format_result,
          existence |-> [exists |-> FALSE],
          hierarchical |-> [hierarchical_valid |-> FALSE]]]

\* the record full_validation returns when the format is valid
validation_record(format_result, existence_result, hierarchical_result) ==
    LET overall_valid == /\ format_result.valid
                         /\ existence_result.exists
                         /\ hierarchical_result.hierarchical_valid
    IN  [overall_valid |-> overall_valid,
         hsn_code |-> format_result.original_code,
         cleaned_code |-> format_result.cleaned_code,
         format_valid |-> format_result.valid,
         exists |-> existence_result.exists,
         description |-> existence_result.description,
         hierarchical_valid |-> hierarchical_result.hierarchical_valid,
         validation_details |->
             [format |-> format_result,
              existence |-> existence_result,
              hierarchical |-> hierarchical_result]]

\* the format failure does not end the validation: existence and hierarchy are
\* checked for the cleaned code all the same
full_validation_run_without_early_return(lookup, hsn_code) ==
    LET format_result == validate_format(hsn_code)
        cleaned_code == format_result.cleaned_code
        existence_result == validate_existence(lookup, cleaned_code)
        hierarchical_result == validate_hierarchical(lookup, cleaned_code)
    IN  [result |-> validation_record(format_result, existence_result, hierarchical_result),
         lookups |-> 1 + Len(hierarchical_result.parent_codes)]

\* full_validation, with the number of get_hsn_info calls it makes: none when the
\* format is invalid, else one for the code and one for each parent code
full_validation_run(lookup, hsn_code) ==
    LET format_result == validate_format(hsn_code)
    IN  IF ~format_result.valid
        THEN [result |-> format_failure(format_result), lookups |-> 0]
        ELSE LET cleaned_code == format_result.cleaned_code
                 existence_result == validate_existence(lookup, cleaned_code)
                 hierarchical_result == validate_hierarchical(lookup, cleaned_code)
             IN  [result |-> validation_record(format_result, existence_result,
                                               hierarchical_result),
                  lookups |-> 1 + Len(hierarchical_result.parent_codes)]

full_validation(lookup, hsn_code) == full_validation_run(lookup, hsn_code).result

\* the get_hsn_info calls of the full_validation calls of a batch
RECURSIVE BatchLookups(_, _)
BatchLookups(lookup, hsn_codes) ==
    IF hsn_codes = <<>> THEN 0
    ELSE full_validation_run(lookup, Head(hsn_codes)).lookups
             + BatchLookups(lookup, Tail(hsn_codes))

\* each result is put in front of the earlier ones
RECURSIVE ValidateLoop_prepending(_, _, _)
ValidateLoop_prepending(lookup, hsn_codes, results) ==
    IF hsn_codes = <<>> THEN results
    ELSE ValidateLoop_prepending(lookup, Tail(hsn_codes),
                                 <<full_validation(lookup, Head(hsn_codes))>> \o results)

\* the loop of validate_multiple: results.append(full_validation(code)) per code
RECURSIVE ValidateLoop(_, _, _)
ValidateLoop(lookup, hsn_codes, results) ==
    IF hsn_codes = <<>> THEN results
    ELSE ValidateLoop(lookup, Tail(hsn_codes),
                      Append(results, full_validation(lookup, Head(hsn_codes))))

validate_multiple(lookup, hsn_codes) == ValidateLoop(lookup, hsn_codes, <<>>)

-----------------------------------------------------------------------------
(* HSNDataHandler.search_by_description *)

\* rows whose lower-cased description contains the lower-cased, stripped query,
\* in catalog order, at most `limit` of them (DataFrame.head)
search_by_description(data, query, limit) ==
    LET q == Strip(Lower(query))
        Matches(r) == Contains(Lower(r.Description), q)
        results == Take(SelectSeq(data, Matches), limit)
    IN  [i \in 1..Len(results) |->
            [hsn_code |-> results[i].HSNCode,
             description |-> results[i].Description,
             match_type |-> "description_search"]]

-----------------------------------------------------------------------------
(* The similarity index: TfidfVectorizer(stop_words='english', ngram_range=(1, 2), *)
(* min_df=1, max_df=0.95, lowercase=True) fitted on the descriptions, and the      *)
(* cosine similarity of a query to each description.                              *)

\* the words of the English stop list that occur in the modelled texts
StopWords == { <<"o", "t", "h", "e", "r">>, <<"t", "h", "e">> }

\* \w of the token pattern: letters and digits
IsWordChar(c) == ~IsSpaceChar(c) /\ c \notin {"-", ","}

\* the maximal runs of word characters, in order
WordRuns(s) == RunsOf(s, {c \in Whitespace \cup {"-", ","} : ~IsWordChar(c)})

\* the tokens of a text: lower-cased, two characters at least, stop words removed
Words(text) ==
    LET Kept(w) == Len(w) >= 2 /\ w \notin StopWords
    IN  SelectSeq(WordRuns(Lower(text)), Kept)

\* the terms of a text: its tokens, then each pair of neighbouring tokens
Terms(text) ==
    LET w == Words(text)
    IN  w \o [i \in 1..(Len(w) - 1) |-> w[i] \o <<" ">> \o w[i + 1]]

\* the pairs <<document, term>> with the term occurring in the document
Postings(docs) ==
    UNION {LET terms == Terms(docs[i])
           IN  {<<i, terms[k]>> : k \in 1..Len(terms)} : i \in 1..Len(docs)}

\* the number of documents a term occurs in
DocumentFrequency(postings, term) == Cardinality({p \in postings : p[2] = term})

\* max_df, in hundredths
MaxDf == 95

\* fit: the terms of the documents, those in more than max_df of the documents pruned
fit_vocabulary(docs) ==
    LET postings == Postings(docs)
    IN  {term \in {p[2] : p \in postings} :
            100 * DocumentFrequency(postings, term) <= MaxDf * Len(docs)}

\* fit raises when no term remains (no documents, only stop words, all terms pruned);
\* _prepare_vectors re-raises and the suggester is not constructed
fit_raises(docs) == fit_vocabulary(docs) = {}

\* transform: how often each term of the vocabulary occurs in the text
CountVector(vocab, text) ==
    LET terms == Terms(text)
    IN  [term \in vocab |-> Cardinality({i \in 1..Len(terms) : terms[i] = term})]

\* fit_transform: one vector per document
fit_transform(vocab, docs) == [i \in 1..Len(docs) |-> CountVector(vocab, docs[i])]

\* the characters of the terms in code-point order
Alphabet ==
    <<" ", "0", "1", "2", "3", "4", "5", "6", "7", "8", "9",
      "a", "b", "c", "d", "e", "f", "g", "h", "i", "j", "k", "l", "m",
      "n", "o", "p", "q", "r", "s", "t", "u", "v", "w", "x", "y", "z">>

CharIndex(c) == CHOOSE i \in 1..Len(Alphabet) : Alphabet[i] = c

\* s < t as Python compares strings
RECURSIVE TermBefore(_, _)
TermBefore(s, t) ==
    IF t = <<>> THEN FALSE
    ELSE IF s = <<>> THEN TRUE
    ELSE IF Head(s) = Head(t) THEN TermBefore(Tail(s), Tail(t))
    ELSE CharIndex(Head(s)) < CharIndex(Head(t))

\* get_feature_names_out: the terms of the vocabulary in sorted order
get_feature_names_out(vocab) ==
    [i \in 1..Cardinality(vocab) |->
        CHOOSE t \in vocab : Cardinality({u \in vocab : TermBefore(u, t)}) = i - 1]

\* the natural logarithms of 1, 2, ..., 10, in hundredths
LogHundredths == <<0, 69, 110, 139, 161, 179, 195, 208, 220, 230>>

\* the smoothed idf of a term in df of n documents, ln((1 + n) / (1 + df)) + 1, in
\* hundredths
idf(n, df) == 100 + LogHundredths[n + 1] - LogHundredths[df + 1]

\* the integer square root
RECURSIVE SqrtIter(_, _)
SqrtIter(n, x) ==
    LET y == (x + n \div x) \div 2
    IN  IF y >= x THEN x ELSE SqrtIter(n, y)

ISqrt(n) == IF n = 0 THEN 0 ELSE SqrtIter(n, n)

RECURSIVE SumOfSquares(_)
SumOfSquares(weights) ==
    IF weights = <<>> THEN 0
    ELSE Head(weights) * Head(weights) + SumOfSquares(Tail(weights))

\* vectorizer.transform([text]).toarray()[0]: per feature name the count of the term
\* in the text times its idf, the vector scaled to length 1; in thousandths
transform(feature_names, vectors, text) ==
    LET counts == CountVector({feature_names[i] : i \in 1..Len(feature_names)}, text)
        Df(term) == Cardinality({d \in 1..Len(vectors) : vectors[d][term] > 0})
        raw == [i \in 1..Len(feature_names) |->
                   IF counts[feature_names[i]] = 0 THEN 0
                   ELSE counts[feature_names[i]] * idf(Len(vectors), Df(feature_names[i]))]
        norm == ISqrt(100 * SumOfSquares(raw))
    IN  [i \in 1..Len(raw) |-> IF raw[i] = 0 THEN 0 ELSE (raw[i] * 10000) \div norm]

\* no term in common: the cosine is 0 (also when either vector is all zeros)
NoCommonTerm(u, v) == \A term \in DOMAIN u : u[term] = 0 \/ v[term] = 0

\* both vectors non-zero and one a multiple of the other: the cosine is 1
SameDirection(u, v) ==
    /\ \E term \in DOMAIN u : u[term] > 0
    /\ \E term \in DOMAIN v : v[term] > 0
    /\ \A s, t \in DOMAIN u : u[s] * v[t] = u[t] * v[s]

\* similarity scores are in hundredths: 100 is 1.0
MaxScore == 100

\* the cosines strictly between 0 and 1 the model draws from
Scores == {5, 10, 20, 40, 70}

\* cosine_similarity(query_vector, description_vectors): 0 for a description sharing
\* no term with the query, 1 for one whose vector has the query's direction, a value
\* in between otherwise; descriptions with equal vectors score the same
cosine_similarities(query_vector, vectors) ==
    LET Cosines(i) == IF NoCommonTerm(query_vector, vectors[i]) THEN {0}
                      ELSE IF SameDirection(query_vector, vectors[i]) THEN {MaxScore}
                      ELSE Scores
    IN  {s \in [1..Len(vectors) -> Scores \cup {0, MaxScore}] :
            /\ \A i \in 1..Len(vectors) : s[i] \in Cosines(i)
            /\ \A i, j \in 1..Len(vectors) : vectors[i] = vectors[j] => s[i] = s[j]}

\* np.argsort(similarities) without the reversal: the rows by ascending score
argsort_ascending(similarities) ==
    LET n == Len(similarities)
    IN  {p \in [1..n -> 1..n] :
            /\ \A i, j \in 1..n : p[i] = p[j] => i = j
            /\ \A i \in 1..n : i < n => similarities[p[i]] <= similarities[p[i + 1]]}

\* np.argsort(similarities)[::-1]: the rows by descending score; rows of equal score
\* come in the order the sort leaves them, which the model does not fix
argsort_descending(similarities) ==
    LET n == Len(similarities)
    IN  {p \in [1..n -> 1..n] :
            /\ \A i, j \in 1..n : p[i] = p[j] => i = j
            /\ \A i \in 1..n : i < n => similarities[p[i]] >= similarities[p[i + 1]]}

-----------------------------------------------------------------------------
(* HSNSuggester *)

\* scores are in hundredths: 10 is 0.1
DefaultThreshold == 10

KeywordScore == 10

HighScore == 70

MediumScore == 40

LowScore == 20

\* the levels start above their bounds instead of at them
get_confidence_level_strict(similarity_score) ==
    IF similarity_score > HighScore THEN "High"
    ELSE IF similarity_score > MediumScore THEN "Medium"
    ELSE IF similarity_score > LowScore THEN "Low"
    ELSE "Very Low"

get_confidence_level(similarity_score) ==
    IF similarity_score >= HighScore THEN "High"
    ELSE IF similarity_score >= MediumScore THEN "Medium"
    ELSE IF similarity_score >= LowScore THEN "Low"
    ELSE "Very Low"

Codes(suggestions) == {suggestions[i].hsn_code : i \in 1..Len(suggestions)}

\* the inner loop of _keyword_based_search over the results of one keyword
RECURSIVE KeywordResultsLoop(_, _, _)
KeywordResultsLoop(keyword_results, limit, suggestions) ==
    IF keyword_results = <<>> THEN suggestions
    ELSE LET found == Head(keyword_results)
         IN  IF found.hsn_code \notin Codes(suggestions)
             THEN LET added == Append(suggestions,
                                  [hsn_code |-> found.hsn_code,
                                   description |-> found.description,
                                   similarity_score |-> KeywordScore,
                                   confidence_level |-> "Low",
                                   match_type |-> "keyword_search"])
                  IN  IF Len(added) >= limit THEN added
                      ELSE KeywordResultsLoop(Tail(keyword_results), limit, added)
             ELSE KeywordResultsLoop(Tail(keyword_results), limit, suggestions)

\* every keyword is searched for, the short ones too
RECURSIVE KeywordLoop_any_length(_, _, _, _)
KeywordLoop_any_length(data, keywords, limit, st) ==
    IF keywords = <<>> THEN st
    ELSE LET keyword_results == search_by_description(data, Head(keywords), limit * 2)
             found == KeywordResultsLoop(keyword_results, limit, st.suggestions)
             next == [suggestions |-> found, searches |-> st.searches + 1]
         IN  IF Len(found) >= limit THEN next
             ELSE KeywordLoop_any_length(data, Tail(keywords), limit, next)

\* the outer loop of _keyword_based_search over the keywords;
\* state [suggestions, searches]: searches counts the search_by_description calls
RECURSIVE KeywordLoop(_, _, _, _)
KeywordLoop(data, keywords, limit, st) ==
    IF keywords = <<>> THEN st
    ELSE LET keyword == Head(keywords)
         IN  IF Len(keyword) > 2
             THEN LET keyword_results == search_by_description(data, keyword, limit * 2)
                      found == KeywordResultsLoop(keyword_results, limit, st.suggestions)
                      next == [suggestions |-> found, searches |-> st.searches + 1]
                  IN  IF Len(found) >= limit THEN next
                      ELSE KeywordLoop(data, Tail(keywords), limit, next)
             ELSE KeywordLoop(data, Tail(keywords), limit, st)

\* the whole description is searched for as one keyword
keyword_based_search_whole_query(data, product_description, limit) ==
    LET keywords == <<Lower(product_description)>>
        st == KeywordLoop(data, keywords, limit, [suggestions |-> <<>>, searches |-> 0])
    IN  [suggestions |-> Take(st.suggestions, limit), searches |-> st.searches]

keyword_based_search(data, product_description, limit) ==
    LET keywords == Split(Lower(product_description))
        st == KeywordLoop(data, keywords, limit, [suggestions |-> <<>>, searches |-> 0])
    IN  [suggestions |-> Take(st.suggestions, limit), searches |-> st.searches]

\* the loop of suggest_hsn_codes over top_indices
RECURSIVE VectorLoop(_, _, _, _, _, _)
VectorLoop(data, threshold, similarities, top_indices, top_k, suggestions) ==
    IF top_indices = <<>> THEN suggestions
    ELSE LET idx == Head(top_indices)
             similarity_score == similarities[idx]
             row == data[idx]
         IN  IF similarity_score >= threshold /\ row.HSNCode \notin Codes(suggestions)
             THEN LET added == Append(suggestions,
                                  [hsn_code |-> row.HSNCode,
                                   description |-> row.Description,
                                   similarity_score |-> similarity_score,
                                   confidence_level |-> get_confidence_level(similarity_score),
                                   match_type |-> "ml_similarity"])
                  IN  IF Len(added) >= top_k THEN added
                      ELSE VectorLoop(data, threshold, similarities, Tail(top_indices), top_k, added)
             ELSE VectorLoop(data, threshold, similarities, Tail(top_indices), top_k, suggestions)

\* hsn_data.iloc[idx] throws in the loop: a row that passes the threshold has no
\* counterpart in hsn_data, which load_data has replaced by a shorter sheet
RECURSIVE VectorLoopRaises(_, _, _, _, _, _)
VectorLoopRaises(data, threshold, similarities, top_indices, top_k, suggestions) ==
    IF top_indices = <<>> THEN FALSE
    ELSE LET idx == Head(top_indices)
             similarity_score == similarities[idx]
         IN  IF similarity_score < threshold
             THEN VectorLoopRaises(data, threshold, similarities, Tail(top_indices), top_k,
                                   suggestions)
             ELSE IF idx > Len(data) THEN TRUE
             ELSE LET found == VectorLoop(data, threshold, similarities, <<idx>>, top_k,
                                          suggestions)
                  IN  IF Len(found) >= top_k THEN FALSE
                      ELSE VectorLoopRaises(data, threshold, similarities,
                                            Tail(top_indices), top_k, found)

\* the keyword suggestions are added without looking at seen_codes
AddUnseen_unfiltered(suggestions, keyword_suggestions) ==
    suggestions \o keyword_suggestions

\* keyword suggestions whose code the vector loop has not seen
AddUnseen(suggestions, keyword_suggestions) ==
    LET seen_codes == Codes(suggestions)
        Unseen(s) == s.hsn_code \notin seen_codes
    IN  suggestions \o SelectSeq(keyword_suggestions, Unseen)

\* only the empty description is taken for a blank one
IsBlank_empty_only(product_description) == product_description = <<>>

\* not product_description or not product_description.strip()
IsBlank(product_description) ==
    product_description = <<>> \/ Strip(product_description) = <<>>

\* suggest_hsn_codes.  `raises`: the similarity-index query throws; so does the loop
\* when it reads a row hsn_data no longer has, and either way the except branch answers;
\* `similarities`: what cosine_similarity returns, one score per row;
\* `ranking`: np.argsort(similarities)[::-1], the rows by descending score.
\* Returns the suggestions with the number of index queries and keyword searches made.
suggest_hsn_codes(data, threshold, product_description, top_k, raises, similarities, ranking) ==
    IF IsBlank(product_description)
    THEN [suggestions |-> <<>>, index_queries |-> 0, keyword_searches |-> 0]
    ELSE IF raises \/ VectorLoopRaises(data, threshold, similarities,
                                       Take(ranking, top_k * 2), top_k, <<>>)
    THEN LET fallback == keyword_based_search(data, product_description, top_k)
         IN  [suggestions |-> fallback.suggestions,
              index_queries |-> 1, keyword_searches |-> fallback.searches]
    ELSE LET top_indices == Take(ranking, top_k * 2)
             found == VectorLoop(data, threshold, similarities, top_indices, top_k, <<>>)
         IN  IF Len(found) < top_k
             THEN LET keyword == keyword_based_search(data, product_description,
                                                      top_k - Len(found))
                  IN  [suggestions |-> Take(AddUnseen(found, keyword.suggestions), top_k),
                       index_queries |-> 1, keyword_searches |-> keyword.searches]
             ELSE [suggestions |-> Take(found, top_k),
                   index_queries |-> 1, keyword_searches |-> 0]

\* suggest_with_explanation: the terms of the query by descending weight, the first
\* ten at most, those of weight zero left out.  `query_features` is the query's
\* weight per vocabulary term, `feature_ranking` is np.argsort(query_features)[::-1].
MaxKeyTerms == 10

\* the terms of weight zero are kept
top_features_with_zero_weights(feature_names, query_features, feature_ranking) ==
    LET top_feature_indices == Take(feature_ranking, MaxKeyTerms)
    IN  [j \in 1..Len(top_feature_indices) |-> feature_names[top_feature_indices[j]]]

top_features(feature_names, query_features, feature_ranking) ==
    LET top_feature_indices == Take(feature_ranking, MaxKeyTerms)
        Weighted(i) == query_features[i] > 0
        kept == SelectSeq(top_feature_indices, Weighted)
    IN  [j \in 1..Len(kept) |-> feature_names[kept[j]]]

\* `index`: what the index does in suggest_hsn_codes [raises, similarities, ranking];
\* `analysis`: what vectorizer.transform, called here outside any try block, does:
\* [raises] when it throws, or the query weights and their argsort
\* the analysis of the query and the record suggest_with_explanation returns
explanation(product_description, suggestions, analysis) ==
    IF analysis.raises
    THEN [raised |-> TRUE]
    ELSE [raised |-> FALSE,
          query |-> product_description,
          suggestions |-> suggestions,
          analysis |->
              [key_terms_identified |->
                   top_features(analysis.feature_names, analysis.query_features,
                                analysis.feature_ranking),
               total_suggestions |-> Len(suggestions),
               suggestion_methods |-> {suggestions[i].match_type : i \in 1..Len(suggestions)}]]

suggest_with_explanation(data, threshold, product_description, top_k, index, analysis) ==
    LET suggested == suggest_hsn_codes(data, threshold, product_description, top_k,
                                       index.raises, index.similarities, index.ranking)
        explained == explanation(product_description, suggested.suggestions, analysis)
        counted == {"index_queries", "keyword_searches"}
    IN  [k \in DOMAIN explained \cup counted |->
            IF k = "index_queries" THEN suggested.index_queries + 1
            ELSE IF k = "keyword_searches" THEN suggested.keyword_searches
            ELSE explained[k]]

\* update_similarity_threshold: the new threshold is taken when it is within
\* 0.0 .. 1.0, else ValueError is raised and the threshold stays
LowestThreshold == 0

HighestThreshold == 100

\* the two ends of the range are refused
update_similarity_threshold_exclusive(threshold, new_threshold) ==
    IF LowestThreshold < new_threshold /\ new_threshold < HighestThreshold
    THEN [min_similarity_threshold |-> new_threshold, raised |-> FALSE]
    ELSE [min_similarity_threshold |-> threshold, raised |-> TRUE]

update_similarity_threshold(threshold, new_threshold) ==
    IF LowestThreshold <= new_threshold /\ new_threshold <= HighestThreshold
    THEN [min_similarity_threshold |-> new_threshold, raised |-> FALSE]
    ELSE [min_similarity_threshold |-> threshold, raised |-> TRUE]

-----------------------------------------------------------------------------
(* The inputs the model draws from *)

Code01 == <<"0", "1">>
Code0101 == <<"0", "1", "0", "1">>
Code010110 == <<"0", "1", "0", "1", "1", "0">>
Code01011010 == <<"0", "1", "0", "1", "1", "0", "1", "0">>
Code011 == <<"0", "1", "1">>

TextLive == <<"L", "i", "v", "e">>
TextHorses == <<"H", "o", "r", "s", "e", "s">>
TextLiveHorses == <<"l", "i", "v", "e", " ", "h", "o", "r", "s", "e", "s">>
TextHorse == <<"h", "o", "r", "s", "e">>
TextHens == <<"h", "e", "n", "s">>
TextOther == <<"O", "t", "h", "e", "r">>

\* the rows of the spreadsheet: codes of length 2, 4 and 6, one of length 3, one
\* padded with spaces that cleans to an earlier code, one with a missing description
RawPool ==
    { [HSNCode |-> Code01, Description |-> TextLive],
      [HSNCode |-> Code0101, Description |-> TextHorses],
      [HSNCode |-> Code010110, Description |-> TextLiveHorses],
      [HSNCode |-> Code011, Description |-> TextHens],
      [HSNCode |-> <<" ", "0", " ", "1">>, Description |-> <<" ">> \o TextLive \o <<" ">>],
      [HSNCode |-> <<"0", "2">>, Description |-> None] }

\* the same with a code of length 8
RawPoolV == RawPool \cup { [HSNCode |-> Code01011010, Description |-> TextHorse] }

\* the same with a row whose description is a stop word
RawPoolS == RawPool \cup { [HSNCode |-> <<"0", "3">>, Description |-> TextOther] }

RawSheets == UNION { [1..n -> RawPoolS] : n \in 1..MaxIndexedRows }

TextLiveLower == <<"l", "i", "v", "e">>

\* sheets in which two rows share their terms, which a third row keeps from being
\* pruned by max_df: the same description under two codes, and two descriptions
\* that differ in case only
TiedSheets ==
    { <<[HSNCode |-> Code01, Description |-> TextLive],
        [HSNCode |-> <<"0", "2">>, Description |-> TextLive],
        [HSNCode |-> Code011, Description |-> TextHens]>>,
      <<[HSNCode |-> Code01, Description |-> TextLive],
        [HSNCode |-> <<"0", "2">>, Description |-> TextLiveLower],
        [HSNCode |-> Code011, Description |-> TextHens]>> }

RawSheetsV == UNION { [1..n -> RawPoolV] : n \in 1..MaxRows }

\* the codes handed to full_validation and validate_multiple
CodeInputs ==
    { <<>>,
      <<"a", "b">>,
      Code01,
      <<" ", "0", "1">>,
      Code011,
      Code0101,
      <<"0", "1", "-", "0", "1">>,
      <<"0", "1", "0", "2">>,
      Code010110,
      <<"0", "1", "0", "1", "9", "9">>,
      <<"a", "b", "c">>,
      Code01011010,
      Code01011010 \o <<"1">> }

\* the codes of a validate_multiple batch
BatchInputs ==
    { <<"a", "b">>, Code01, Code011, <<"0", "1", "-", "0", "1">>, Code010110, Code01011010 }

Batches == UNION { [1..n -> BatchInputs] : n \in 0..MaxBatch }

\* the cleaned codes handed to validate_hierarchical: every length from 0 to 9
HierarchyInputs ==
    { SubSeq(Code01011010 \o <<"1">>, 1, n) : n \in 0..9 } \cup { <<"0", "1", "0", "2">> }

\* the product descriptions handed to the suggester
Queries ==
    { <<>>,
      <<" ", " ">>,
      <<"h", "o">>,
      <<"H", "o", "r", "s", "e">>,
      <<"l", "i", "v", "e", " ", "h", "e", "n">>,
      TextLiveHorses }

\* the same, and each description of the catalog used verbatim
QueriesOver(descs) == Queries \cup {descs[i] : i \in 1..Len(descs)}

TopKs == 1..MaxTopK

\* the thresholds handed to update_similarity_threshold, in hundredths
ThresholdInputs == {-10, 0, 60, 110}

\* the score of each row, given the ranking and the scores along it
ScoreOfRow(ranking, sorted) ==
    [idx \in 1..Len(ranking) |-> sorted[CHOOSE i \in 1..Len(ranking) : ranking[i] = idx]]

\* np.argsort(query_features)[::-1]: the features by descending weight; features of
\* equal weight come in the order the sort leaves them, which the model does not fix
\* for the weighted ones; those of weight 0, which top_features drops whatever their
\* order, are listed last by descending index
RECURSIVE FeatureRankingsOf(_, _)
FeatureRankingsOf(query_features, remaining) ==
    IF remaining = {} THEN {<<>>}
    ELSE LET highest == {i \in remaining :
                            \A k \in remaining : query_features[i] >= query_features[k]}
             first == IF \A i \in highest : query_features[i] = 0
                      THEN {CHOOSE i \in highest : \A k \in highest : i >= k}
                      ELSE highest
         IN  UNION {{<<i>> \o r : r \in FeatureRankingsOf(query_features, remaining \ {i})} :
                    i \in first}

FeatureRankings(query_features) ==
    FeatureRankingsOf(query_features, 1..Len(query_features))

\* the callers that use the shared instances concurrently; a caller not in a call
Callers == 1..MaxCallers

IdleCall == [pc |-> "idle", op |-> "none", args |-> <<>>, local |-> <<>>, result |-> <<>>]

-----------------------------------------------------------------------------
(* The state machine *)

\* HSNDataHandler.__init__ then HSNSuggester.__init__, as HSNAgentSimple.__init__ runs them
Load(sheets) ==
    /\ \E rows \in sheets :
          /\ hsn_data = clean_data(rows)
          /\ Len(hsn_data) >= 1
    /\ hsn_lookup = create_lookup(hsn_data)
    /\ descriptions = [i \in 1..Len(hsn_data) |-> hsn_data[i].Description]
    /\ ~fit_raises(descriptions)
    /\ vocabulary = fit_vocabulary(descriptions)
    /\ description_vectors = fit_transform(vocabulary, descriptions)
    /\ min_similarity_threshold = DefaultThreshold
    /\ pc = "idle"
    /\ op = "none"
    /\ args = <<>>
    /\ result = <<>>
    /\ index_queries = 0
    /\ keyword_searches = 0
    /\ catalog_lookups = 0
    /\ calls = [c \in Callers |-> IdleCall]

Init == Load(RawSheets \cup TiedSheets)

InitV == Load(RawSheetsV)

Frame ==
    UNCHANGED <<hsn_data, hsn_lookup, descriptions, vocabulary, description_vectors,
                min_similarity_threshold, calls>>

\* HSNAgentSimple.validate_hsn
FullValidation(hsn_code) ==
    /\ pc = "idle"
    /\ pc' = "returned"
    /\ op' = "full_validation"
    /\ args' = [hsn_code |-> hsn_code]
    /\ LET run == full_validation_run(hsn_lookup, hsn_code)
       IN  /\ result' = run.result
           /\ catalog_lookups' = run.lookups
    /\ index_queries' = 0
    /\ keyword_searches' = 0
    /\ Frame

\* HSNAgentSimple.validate_multiple_hsn
ValidateMultiple(hsn_codes) ==
    /\ pc = "idle"
    /\ pc' = "returned"
    /\ op' = "validate_multiple"
    /\ args' = [hsn_codes |-> hsn_codes]
    /\ result' = validate_multiple(hsn_lookup, hsn_codes)
    /\ catalog_lookups' = BatchLookups(hsn_lookup, hsn_codes)
    /\ index_queries' = 0
    /\ keyword_searches' = 0
    /\ Frame

\* HSNValidator.validate_hierarchical called on its own
ValidateHierarchical(hsn_code) ==
    /\ pc = "idle"
    /\ pc' = "returned"
    /\ op' = "validate_hierarchical"
    /\ args' = [hsn_code |-> hsn_code]
    /\ result' = validate_hierarchical(hsn_lookup, hsn_code)
    /\ catalog_lookups' = Len(validate_hierarchical(hsn_lookup, hsn_code).parent_codes)
    /\ index_queries' = 0
    /\ keyword_searches' = 0
    /\ Frame

\* the call fits the vectorizer on the description it is asked about, so that the
\* vocabulary gains the terms of the query
Suggest_refitting(product_description, top_k, raises, ranking, sorted) ==
    /\ pc = "idle"
    /\ LET similarities == ScoreOfRow(ranking, sorted)
           r == suggest_hsn_codes(hsn_data, min_similarity_threshold, product_description,
                                  top_k, raises, similarities, ranking)
           asked == Terms(Strip(product_description))
       IN  /\ args' = [product_description |-> product_description, top_k |-> top_k,
                       raises |-> raises, similarities |-> similarities,
                       ranking |-> ranking]
           /\ result' = r.suggestions
           /\ index_queries' = r.index_queries
           /\ keyword_searches' = r.keyword_searches
           /\ catalog_lookups' = 0
           /\ vocabulary' = IF r.index_queries > 0
                            THEN vocabulary \cup {asked[t] : t \in 1..Len(asked)}
                            ELSE vocabulary
    /\ pc' = "returned"
    /\ op' = "suggest_hsn_codes"
    /\ UNCHANGED <<hsn_data, hsn_lookup, descriptions, description_vectors,
                   min_similarity_threshold, calls>>

\* HSNAgentSimple.suggest_hsn
Suggest(product_description, top_k, raises, ranking, sorted) ==
    /\ pc = "idle"
    /\ LET similarities == ScoreOfRow(ranking, sorted)
           r == suggest_hsn_codes(hsn_data, min_similarity_threshold, product_description,
                                  top_k, raises, similarities, ranking)
       IN  /\ args' = [product_description |-> product_description, top_k |-> top_k,
                       raises |-> raises, similarities |-> similarities,
                       ranking |-> ranking]
           /\ result' = r.suggestions
           /\ index_queries' = r.index_queries
           /\ keyword_searches' = r.keyword_searches
           /\ catalog_lookups' = 0
    /\ pc' = "returned"
    /\ op' = "suggest_hsn_codes"
    /\ Frame

\* HSNAgentSimple.suggest_with_explanation
SuggestWithExplanation(product_description, top_k, index, analysis) ==
    /\ pc = "idle"
    /\ LET r == suggest_with_explanation(hsn_data, min_similarity_threshold,
                    product_description, top_k, index, analysis)
       IN  /\ args' = [product_description |-> product_description, top_k |-> top_k,
                       raises |-> index.raises, similarities |-> index.similarities,
                       ranking |-> index.ranking, analysis_raises |-> analysis.raises,
                       feature_names |-> analysis.feature_names,
                       query_features |-> analysis.query_features,
                       feature_ranking |-> analysis.feature_ranking]
           /\ result' = [k \in DOMAIN r \ {"index_queries", "keyword_searches"} |-> r[k]]
           /\ index_queries' = r.index_queries
           /\ keyword_searches' = r.keyword_searches
           /\ catalog_lookups' = 0
    /\ pc' = "returned"
    /\ op' = "suggest_with_explanation"
    /\ Frame

\* HSNSuggester.update_similarity_threshold
UpdateSimilarityThreshold(new_threshold) ==
    /\ pc = "idle"
    /\ pc' = "returned"
    /\ op' = "update_similarity_threshold"
    /\ args' = [new_threshold |-> new_threshold]
    /\ LET r == update_similarity_threshold(min_similarity_threshold, new_threshold)
       IN  /\ min_similarity_threshold' = r.min_similarity_threshold
           /\ result' = [raised |-> r.raised]
    /\ index_queries' = 0
    /\ keyword_searches' = 0
    /\ catalog_lookups' = 0
    /\ UNCHANGED <<hsn_data, hsn_lookup, descriptions, vocabulary, description_vectors, calls>>

\* HSNDataHandler.load_data called again on the handler the suggester and the validator
\* share: the sheet is read anew; the suggester keeps the descriptions and the vectors
\* it was built with
LoadData(rows) ==
    /\ pc = "idle"
    /\ pc' = "returned"
    /\ op' = "load_data"
    /\ args' = [rows |-> rows]
    /\ LET r == load_data(hsn_lookup, rows)
       IN  /\ hsn_data' = r.hsn_data
           /\ hsn_lookup' = r.hsn_lookup
    /\ result' = <<>>
    /\ index_queries' = 0
    /\ keyword_searches' = 0
    /\ catalog_lookups' = 0
    /\ UNCHANGED <<descriptions, vocabulary, description_vectors,
                   min_similarity_threshold, calls>>

\* the caller takes the result; the next call can start
Return ==
    /\ pc = "returned"
    /\ pc' = "idle"
    /\ op' = "none"
    /\ args' = <<>>
    /\ result' = <<>>
    /\ index_queries' = 0
    /\ keyword_searches' = 0
    /\ catalog_lookups' = 0
    /\ Frame

\* what the index can do in one suggestion call: throw, or compute the similarities
\* of the stripped description and rank the rows by them; <<raises, ranking, scores
\* along the ranking>>
IndexOutcomes(product_description) ==
    LET query_vector == CountVector(vocabulary, Strip(product_description))
    IN  {<<TRUE, <<>>, <<>>>>} \cup
        UNION {{<<FALSE, p, [i \in 1..Len(p) |-> s[p[i]]]>> : p \in argsort_descending(s)} :
               s \in cosine_similarities(query_vector, description_vectors)}

AnalysisOutcomes(product_description) ==
    LET feature_names == get_feature_names_out(vocabulary)
        query_features == transform(feature_names, description_vectors, product_description)
    IN  {[raises |-> TRUE, feature_names |-> feature_names,
          query_features |-> <<>>, feature_ranking |-> <<>>]} \cup
        {[raises |-> FALSE, feature_names |-> feature_names,
          query_features |-> query_features, feature_ranking |-> p] :
            p \in FeatureRankings(query_features)}

IndexOutcome(o) == [raises |-> o[1], ranking |-> o[2], similarities |-> ScoreOfRow(o[2], o[3])]

\* a call starts only when the previous one has returned
CallFullValidation == pc = "idle" /\ \E c \in CodeInputs : FullValidation(c)

CallValidateMultiple == pc = "idle" /\ \E b \in Batches : ValidateMultiple(b)

CallValidateHierarchical == pc = "idle" /\ \E c \in HierarchyInputs : ValidateHierarchical(c)

CallSuggest ==
    /\ pc = "idle"
    /\ \E q \in QueriesOver(descriptions), k \in TopKs :
          \E o \in IndexOutcomes(q) : Suggest(q, k, o[1], o[2], o[3])

CallSuggestWithExplanation ==
    /\ pc = "idle"
    /\ \E q \in QueriesOver(descriptions) :
          \E a \in AnalysisOutcomes(q), o \in IndexOutcomes(q), k \in TopKs :
              SuggestWithExplanation(q, k, IndexOutcome(o), a)

CallUpdateSimilarityThreshold ==
    pc = "idle" /\ \E t \in ThresholdInputs : UpdateSimilarityThreshold(t)

Next ==
    \/ CallFullValidation
    \/ CallValidateMultiple
    \/ CallValidateHierarchical
    \/ CallSuggest
    \/ CallSuggestWithExplanation
    \/ CallUpdateSimilarityThreshold
    \/ Return

Spec == Init /\ [][Next]_vars

\* the validator alone, over the larger catalogs
NextV ==
    \/ CallFullValidation
    \/ CallValidateMultiple
    \/ CallValidateHierarchical
    \/ Return

SpecV == InitV /\ [][NextV]_vars

\* the sheets of a handler whose load_data is called again: the sheet it was built
\* on, one with a row replaced and a description changed, a shorter one, an empty one
ReloadSheets ==
    { <<[HSNCode |-> Code01, Description |-> TextLive],
        [HSNCode |-> Code0101, Description |-> TextHorses]>>,
      <<[HSNCode |-> <<"0", "2">>, Description |-> TextHens],
        [HSNCode |-> Code0101, Description |-> TextHorse]>>,
      <<[HSNCode |-> Code011, Description |-> TextLiveHorses]>>,
      <<[HSNCode |-> <<"0", "2">>, Description |-> None]>> }

InitL == Load(ReloadSheets)

CallLoadData == pc = "idle" /\ \E rows \in ReloadSheets : LoadData(rows)

\* the operations of a process that reloads the sheet between calls
NextL ==
    \/ CallLoadData
    \/ CallFullValidation
    \/ CallSuggest
    \/ CallSuggestWithExplanation
    \/ Return

SpecL == InitL /\ [][NextL]_vars

-----------------------------------------------------------------------------
(* Concurrent callers.  Each call runs as the steps between which another caller  *)
(* can run: one step per read of the shared catalog, index or threshold.          *)

\* the spreadsheets of the concurrent runs
ConcurrentSheets ==
    { <<[HSNCode |-> Code01, Description |-> TextLive],
        [HSNCode |-> Code011, Description |-> TextHens]>>,
      <<[HSNCode |-> Code01, Description |-> TextLive],
        [HSNCode |-> Code0101, Description |-> TextLiveHorses]>> }

\* the calls the concurrent callers make
ConcurrentCalls ==
    {[op |-> "full_validation", args |-> [hsn_code |-> c]] :
        c \in {Code0101, <<"a", "b">>}} \cup
    {[op |-> "validate_multiple", args |-> [hsn_codes |-> <<Code01, Code0101>>]]} \cup
    {[op |-> o, args |-> [product_description |-> q, top_k |-> MaxTopK]] :
        o \in {"suggest_hsn_codes", "suggest_with_explanation"},
        q \in {<<" ", " ">>, <<"l", "i", "v", "e", " ", "h", "e", "n">>}}

InitC == Load(ConcurrentSheets)

\* the state every caller reads
Shared ==
    <<hsn_data, hsn_lookup, descriptions, vocabulary, description_vectors,
      min_similarity_threshold>>

\* the variables of the one-call-at-a-time runs
Sequential == <<pc, op, args, result, index_queries, keyword_searches, catalog_lookups>>

\* caller c moves to step `to` with its locals and result changed
Goto(c, to, local, res) ==
    /\ calls' = [calls EXCEPT ![c] = [@ EXCEPT !.pc = to, !.local = local, !.result = res]]
    /\ UNCHANGED Sequential

\* a caller enters one of the four operations
Begin(c, call) ==
    /\ calls[c].pc = "idle"
    /\ calls' = [calls EXCEPT ![c] =
           [pc |-> CASE call.op = "full_validation" -> "format"
                     [] call.op = "validate_multiple" -> "loop"
                     [] OTHER -> "blank",
            op |-> call.op,
            args |-> call.args,
            local |-> [results |-> <<>>, raises |-> FALSE, similarities |-> <<>>,
                       ranking |-> <<>>, suggestions |-> <<>>, analysis |-> <<>>],
            result |-> <<>>]]
    /\ UNCHANGED <<Shared, Sequential>>

\* full_validation: validate_format, which reads no shared state
FormatStep(c) ==
    /\ calls[c].pc = "format"
    /\ LET format_result == validate_format(calls[c].args.hsn_code)
       IN  IF ~format_result.valid
           THEN Goto(c, "done", calls[c].local, format_failure(format_result))
           ELSE Goto(c, "existence", [format_result |-> format_result], <<>>)
    /\ UNCHANGED Shared

\* full_validation: validate_existence, which reads the lookup
ExistenceStep(c) ==
    /\ calls[c].pc = "existence"
    /\ LET local == calls[c].local
           existence_result == validate_existence(hsn_lookup, local.format_result.cleaned_code)
       IN  Goto(c, "hierarchy",
                [format_result |-> local.format_result,
                 existence_result |-> existence_result], <<>>)
    /\ UNCHANGED Shared

\* full_validation: validate_hierarchical, which reads the lookup, and the return
HierarchyStep(c) ==
    /\ calls[c].pc = "hierarchy"
    /\ LET local == calls[c].local
           hierarchical_result ==
               validate_hierarchical(hsn_lookup, local.format_result.cleaned_code)
       IN  Goto(c, "done", local,
                validation_record(local.format_result, local.existence_result,
                                  hierarchical_result))
    /\ UNCHANGED Shared

\* validate_multiple: one turn of the loop, or the return after the last code
LoopStep(c) ==
    /\ calls[c].pc = "loop"
    /\ LET results == calls[c].local.results
           hsn_codes == calls[c].args.hsn_codes
       IN  IF Len(results) < Len(hsn_codes)
           THEN Goto(c, "loop",
                     [calls[c].local EXCEPT !.results =
                         Append(results,
                                full_validation(hsn_lookup, hsn_codes[Len(results) + 1]))],
                     <<>>)
           ELSE Goto(c, "done", calls[c].local, results)
    /\ UNCHANGED Shared

\* the step a suggestion call ends its suggest_hsn_codes part with
Suggested(c, suggestions) ==
    IF calls[c].op = "suggest_with_explanation"
    THEN Goto(c, "analysis", [calls[c].local EXCEPT !.suggestions = suggestions], <<>>)
    ELSE Goto(c, "done", calls[c].local, suggestions)

\* suggest_hsn_codes: the guard on a blank description
BlankStep(c) ==
    /\ calls[c].pc = "blank"
    /\ IF IsBlank(calls[c].args.product_description)
       THEN Suggested(c, <<>>)
       ELSE Goto(c, "query", calls[c].local, <<>>)
    /\ UNCHANGED Shared

\* suggest_hsn_codes: transform, cosine_similarity and argsort, which read the index
QueryStep(c) ==
    /\ calls[c].pc = "query"
    /\ \E o \in IndexOutcomes(calls[c].args.product_description) :
          LET index == IndexOutcome(o)
              local == [calls[c].local EXCEPT !.raises = index.raises,
                                              !.similarities = index.similarities,
                                              !.ranking = index.ranking]
          IN  Goto(c, IF index.raises THEN "fallback" ELSE "collect", local, <<>>)
    /\ UNCHANGED Shared

\* suggest_hsn_codes: the loop over top_indices, which reads the threshold and the rows
CollectStep(c) ==
    /\ calls[c].pc = "collect"
    /\ LET local == calls[c].local
           top_k == calls[c].args.top_k
           found == VectorLoop(hsn_data, min_similarity_threshold, local.similarities,
                               Take(local.ranking, top_k * 2), top_k, <<>>)
       IN  IF Len(found) < top_k
           THEN Goto(c, "keyword", [local EXCEPT !.suggestions = found], <<>>)
           ELSE Suggested(c, Take(found, top_k))
    /\ UNCHANGED Shared

\* the keyword search lower-cases the Description column of the catalog in place
KeywordStep_lowercasing(c) ==
    /\ calls[c].pc = "keyword"
    /\ LET found == calls[c].local.suggestions
           top_k == calls[c].args.top_k
           keyword == keyword_based_search(hsn_data, calls[c].args.product_description,
                                           top_k - Len(found))
       IN  Suggested(c, Take(AddUnseen(found, keyword.suggestions), top_k))
    /\ hsn_data' = [i \in 1..Len(hsn_data) |-> [hsn_data[i] EXCEPT !.Description = Lower(@)]]
    /\ UNCHANGED <<hsn_lookup, descriptions, vocabulary, description_vectors,
                   min_similarity_threshold>>

\* suggest_hsn_codes: the keyword search that fills up the results; reads the rows
KeywordStep(c) ==
    /\ calls[c].pc = "keyword"
    /\ LET found == calls[c].local.suggestions
           top_k == calls[c].args.top_k
           keyword == keyword_based_search(hsn_data, calls[c].args.product_description,
                                           top_k - Len(found))
       IN  Suggested(c, Take(AddUnseen(found, keyword.suggestions), top_k))
    /\ UNCHANGED Shared

\* suggest_hsn_codes: the keyword search of the except branch; reads the rows
FallbackStep(c) ==
    /\ calls[c].pc = "fallback"
    /\ Suggested(c, keyword_based_search(hsn_data, calls[c].args.product_description,
                                         calls[c].args.top_k).suggestions)
    /\ UNCHANGED Shared

\* suggest_with_explanation: the analysis of the query, which reads the index
AnalysisStep(c) ==
    /\ calls[c].pc = "analysis"
    /\ \E a \in AnalysisOutcomes(calls[c].args.product_description) :
          Goto(c, "done", [calls[c].local EXCEPT !.analysis = a],
               explanation(calls[c].args.product_description,
                           calls[c].local.suggestions, a))
    /\ UNCHANGED Shared

\* the caller takes the result
ReturnStep(c) ==
    /\ calls[c].pc = "done"
    /\ calls' = [calls EXCEPT ![c] = IdleCall]
    /\ UNCHANGED <<Shared, Sequential>>

NextC ==
    \E c \in Callers :
        \/ \E call \in ConcurrentCalls : Begin(c, call)
        \/ FormatStep(c)
        \/ ExistenceStep(c)
        \/ HierarchyStep(c)
        \/ LoopStep(c)
        \/ BlankStep(c)
        \/ QueryStep(c)
        \/ CollectStep(c)
        \/ KeywordStep(c)
        \/ FallbackStep(c)
        \/ AnalysisStep(c)
        \/ ReturnStep(c)

SpecC == InitC /\ [][NextC]_vars

-----------------------------------------------------------------------------
(* The suggester under changing thresholds: update_similarity_threshold called    *)
(* with values on, inside and outside the accepted range, between suggestions     *)
(* and explanations, over catalogs with a short and with a long description.      *)

\* a description of six words, and a description asked about that repeats its first
\* six, five, ..., one words after the word 'hen', so that its 11 terms of the
\* vocabulary have the counts 6, 5, 5, ..., 1, 1
RECURSIVE JoinWords(_)
JoinWords(words) ==
    IF words = <<>> THEN <<>>
    ELSE IF Len(words) = 1 THEN Head(words)
    ELSE Head(words) \o <<" ">> \o JoinWords(Tail(words))

BovineWords ==
    << <<"o", "x">>, <<"c", "o", "w">>, <<"p", "i", "g">>,
       <<"r", "a", "m">>, <<"e", "w", "e">>, <<"h", "o", "g">> >>

TextBovine == JoinWords(BovineWords)

RECURSIVE Prefixes(_, _)
Prefixes(words, n) ==
    IF n = 0 THEN <<>> ELSE Take(words, n) \o Prefixes(words, n - 1)

TextBovineRepeated ==
    JoinWords(<<<<"h", "e", "n">>>> \o Prefixes(BovineWords, Len(BovineWords)))

\* the spreadsheets of these runs
TunedSheets ==
    { <<[HSNCode |-> Code01, Description |-> TextLiveHorses],
        [HSNCode |-> Code011, Description |-> TextHens]>>,
      <<[HSNCode |-> Code01, Description |-> TextBovine],
        [HSNCode |-> Code011, Description |-> TextHens]>>,
      <<[HSNCode |-> Code01, Description |-> TextLive],
        [HSNCode |-> Code0101, Description |-> TextHorses]>> }

\* the thresholds handed to update_similarity_threshold, in hundredths
TunedThresholds == {-10, 0, 5, 10, 60, 100, 110}

\* the descriptions suggestions are asked for
TunedQueries ==
    { <<"h", "e", "n", " ", "l", "i", "v", "e">>,
      <<"l", "i", "v", "e", " ", "h", "e", "n">>,
      TextLiveHorses,
      TextBovineRepeated }

InitT == Load(TunedSheets)

CallUpdateTuned ==
    pc = "idle" /\ \E t \in TunedThresholds : UpdateSimilarityThreshold(t)

CallSuggestTuned ==
    /\ pc = "idle"
    /\ \E q \in TunedQueries, k \in TopKs :
          \E o \in IndexOutcomes(q) : Suggest(q, k, o[1], o[2], o[3])

CallExplainTuned ==
    /\ pc = "idle"
    /\ \E q \in TunedQueries :
          \E a \in AnalysisOutcomes(q), o \in IndexOutcomes(q), k \in TopKs :
              SuggestWithExplanation(q, k, IndexOutcome(o), a)

NextT ==
    \/ CallUpdateTuned
    \/ CallSuggestTuned
    \/ CallExplainTuned
    \/ Return

SpecT == InitT /\ [][NextT]_vars

-----------------------------------------------------------------------------
(* What the properties are stated in: the catalog as the set of its codes, the     *)
(* digits of an input, and the prefixes a code requires, each defined on its own. *)

CatalogCodes == {hsn_data[i].HSNCode : i \in 1..Len(hsn_data)}

InCatalog(c) == c \in CatalogCodes

NotInCatalog(c) == c \notin CatalogCodes

RECURSIVE DigitsOnly(_)
DigitsOnly(s) ==
    IF s = <<>> THEN <<>>
    ELSE IF Head(s) \in Digits THEN <<Head(s)>> \o DigitsOnly(Tail(s))
    ELSE DigitsOnly(Tail(s))

LegalLengths == {2, 4, 6, 8}

\* the prefixes of lengths 2, 4, 6 strictly shorter than c, shortest first
RequiredPrefixes(c) ==
    LET Shorter(l) == l < Len(c)
        lengths == SelectSeq(<<2, 4, 6>>, Shorter)
    IN  [i \in 1..Len(lengths) |-> SubSeq(c, 1, lengths[i])]

AllPrefixesInCatalog(c) ==
    \A i \in 1..Len(RequiredPrefixes(c)) : InCatalog(RequiredPrefixes(c)[i])

Returned(operation) == pc = "returned" /\ op = operation

AllWhitespace(s) == \A i \in 1..Len(s) : s[i] = " "

NoDuplicateCodes(suggestions) ==
    \A i, j \in 1..Len(suggestions) :
        suggestions[i].hsn_code = suggestions[j].hsn_code => i = j

-----------------------------------------------------------------------------
(* Properties *)

\* C1: the result of full_validation has overall_valid = format_valid AND exists AND
\* hierarchical_valid, on the format-failure path and on the success path; on the
\* success path exists says whether the cleaned code is in the catalog and
\* hierarchical_valid whether every required prefix of the cleaned code is.
C1_OverallIsConjunction ==
    Returned("full_validation") =>
        LET c == DigitsOnly(args.hsn_code)
        IN  /\ result.overall_valid =
                   (result.format_valid /\ result.exists /\ result.hierarchical_valid)
            /\ result.cleaned_code = c
            /\ result.format_valid =>
                   /\ result.exists = InCatalog(c)
                   /\ result.hierarchical_valid = AllPrefixesInCatalog(c)
            /\ result.overall_valid =
                   (result.format_valid /\ InCatalog(c) /\ AllPrefixesInCatalog(c))

\* an input with a separator in it is cleaned, found with its parent, and valid
C1_Witness ==
    /\ Returned("full_validation")
    /\ args.hsn_code # DigitsOnly(args.hsn_code)
    /\ Len(DigitsOnly(args.hsn_code)) = 4
    /\ result.overall_valid

\* C2: an input whose digits are none or number other than 2, 4, 6 or 8 gets
\* format_valid = false and overall_valid = false, and validate_format reports
\* valid exactly when the digits are some and number 2, 4, 6 or 8.
C2_FormatIffLegalLength ==
    Returned("full_validation") =>
        LET c == DigitsOnly(args.hsn_code)
            legal == c # <<>> /\ Len(c) \in LegalLengths
        IN  /\ ~legal => (~result.format_valid /\ ~result.overall_valid)
            /\ result.validation_details.format.valid = legal
            /\ result.format_valid = legal

\* a code of 3 digits and one of 9 digits are both refused
C2_Witness ==
    /\ Returned("full_validation")
    /\ Len(DigitsOnly(args.hsn_code)) = 3
    /\ InCatalog(args.hsn_code)
    /\ ~result.format_valid

\* C3 as stated: every code of the catalog whose required prefixes are all in the
\* catalog is found valid by full_validation.
C3_Original ==
    (/\ Returned("full_validation")
     /\ InCatalog(args.hsn_code)
     /\ AllPrefixesInCatalog(args.hsn_code)) => result.overall_valid

\* C3: every code of the catalog that is made of digits only, has length 2, 4, 6 or
\* 8 and has all its required prefixes in the catalog is found valid by full_validation.
C3_WellFormedCatalogCodeValid ==
    (/\ Returned("full_validation")
     /\ InCatalog(args.hsn_code)
     /\ args.hsn_code = DigitsOnly(args.hsn_code)
     /\ Len(args.hsn_code) \in LegalLengths
     /\ AllPrefixesInCatalog(args.hsn_code)) => result.overall_valid

\* an 8-digit code of the catalog with its three parents in the catalog is valid
C3_Witness ==
    /\ Returned("full_validation")
    /\ InCatalog(args.hsn_code)
    /\ Len(args.hsn_code) = 8
    /\ AllPrefixesInCatalog(args.hsn_code)
    /\ result.overall_valid

\* C4: validate_hierarchical returns as parent_codes the prefixes of lengths 2, 4, 6
\* strictly shorter than the code, shortest first; valid_parents are those in the
\* catalog and missing_parents those not in it; hierarchical_valid holds exactly
\* when missing_parents is empty; a code of length 2 or less has no parents and is valid.
C4_HierarchyPartition ==
    Returned("validate_hierarchical") =>
        LET c == args.hsn_code
        IN  /\ result.parent_codes = RequiredPrefixes(c)
            /\ result.valid_parents = SelectSeq(result.parent_codes, InCatalog)
            /\ result.missing_parents = SelectSeq(result.parent_codes, NotInCatalog)
            /\ result.hierarchical_valid = (result.missing_parents = <<>>)
            /\ Len(c) <= 2 => (result.parent_codes = <<>> /\ result.hierarchical_valid)

\* a code of 8 digits with a parent in the catalog and a parent missing
C4_Witness ==
    /\ Returned("validate_hierarchical")
    /\ Len(args.hsn_code) = 8
    /\ Len(result.parent_codes) = 3
    /\ result.valid_parents # <<>>
    /\ result.missing_parents # <<>>
    /\ ~result.hierarchical_valid

\* C5 as stated: the record full_validation returns carries cleaned_code,
\* format_valid, exists, description, hierarchical_valid, overall_valid and error,
\* on the format-failure path and on the success path.
C5_Original ==
    Returned("full_validation") =>
        {"cleaned_code", "format_valid", "exists", "description",
         "hierarchical_valid", "overall_valid", "error"} \subseteq DOMAIN result

\* C5: the record full_validation returns always carries cleaned_code, format_valid,
\* exists, hierarchical_valid and overall_valid; it carries error, not empty, exactly
\* when the format check failed, and description exactly when it passed.
C5_FieldsByPath ==
    Returned("full_validation") =>
        /\ {"hsn_code", "cleaned_code", "format_valid", "exists",
            "hierarchical_valid", "overall_valid"} \subseteq DOMAIN result
        /\ ("error" \in DOMAIN result) = ~result.format_valid
        /\ ("description" \in DOMAIN result) = result.format_valid
        /\ ~result.format_valid => result.error # <<>>

\* a format failure: error is there, description is not
C5_Witness ==
    /\ Returned("full_validation")
    /\ ~result.format_valid
    /\ "error" \in DOMAIN result
    /\ "description" \notin DOMAIN result

\* the codes whose validation is compared before and after a call: one with a
\* separator that cleans to a 4-digit code, and a 6-digit one
ProbeCodes == { <<"0", "1", "-", "0", "1">>, Code010110 }

\* C6: no call of full_validation, validate_multiple, suggest_hsn_codes or
\* suggest_with_explanation changes the catalog (rows and lookup) or the similarity
\* index (the fitted descriptions, the vocabulary and the vector of each row), and
\* full_validation of every code returns after the call what it returned before it.
C6_CatalogUnchanged ==
    [][/\ hsn_data' = hsn_data
       /\ hsn_lookup' = hsn_lookup
       /\ descriptions' = descriptions
       /\ vocabulary' = vocabulary
       /\ description_vectors' = description_vectors
       /\ \A c \in ProbeCodes :
              full_validation(hsn_lookup', c) = full_validation(hsn_lookup, c)]_vars

\* a suggestion call that ran the keyword search over the catalog has returned
C6_Witness ==
    /\ Returned("suggest_hsn_codes")
    /\ keyword_searches > 0
    /\ result # <<>>
    /\ hsn_lookup = create_lookup(hsn_data)

\* C7: when full_validation reports an 8-digit code hierarchy-valid, full_validation
\* of its 6-digit prefix and of its 4-digit prefix each report exists = true.
C7_HierarchyMonotone ==
    (/\ Returned("full_validation")
     /\ Len(DigitsOnly(args.hsn_code)) = 8
     /\ result.hierarchical_valid) =>
        /\ full_validation(hsn_lookup, SubSeq(DigitsOnly(args.hsn_code), 1, 6)).exists
        /\ full_validation(hsn_lookup, SubSeq(DigitsOnly(args.hsn_code), 1, 4)).exists

\* an 8-digit code that is not in the catalog is hierarchy-valid
C7_Witness ==
    /\ Returned("full_validation")
    /\ Len(DigitsOnly(args.hsn_code)) = 8
    /\ result.hierarchical_valid
    /\ ~result.exists

\* C8: validate_multiple returns one result per code, the i-th being what
\* full_validation returns for the i-th code, whatever the other codes of the batch.
C8_BatchIsPointwise ==
    Returned("validate_multiple") =>
        /\ Len(result) = Len(args.hsn_codes)
        /\ \A i \in 1..Len(result) :
               /\ result[i] = full_validation(hsn_lookup, args.hsn_codes[i])
               /\ result[i].hsn_code = args.hsn_codes[i]

\* a batch of a valid code followed by an ill-formed one
C8_Witness ==
    /\ Returned("validate_multiple")
    /\ Len(args.hsn_codes) = 2
    /\ args.hsn_codes[1] # args.hsn_codes[2]
    /\ result[1].overall_valid
    /\ ~result[2].format_valid

\* C9: suggest_hsn_codes with top_k >= 1 returns at most top_k results, no two of
\* them with the same code, whether the results come from the similarity ranking,
\* from the ranking and the keyword search, or from the keyword search after an error.
C9_AtMostTopKDistinct ==
    (Returned("suggest_hsn_codes") /\ args.top_k >= 1) =>
        /\ Len(result) <= args.top_k
        /\ NoDuplicateCodes(result)

\* the ranking gave one result and the keyword search, which also matches that row,
\* gave the other
C9_Witness ==
    /\ Returned("suggest_hsn_codes")
    /\ ~args.raises
    /\ args.top_k = 2
    /\ Len(result) = 2
    /\ result[1].match_type = "ml_similarity"
    /\ result[2].match_type = "keyword_search"
    /\ Contains(Lower(result[1].description), <<"l", "i", "v", "e">>)
    /\ Contains(Lower(result[2].description), <<"l", "i", "v", "e">>)
    /\ args.product_description = TextLiveHorses

\* C10: suggest_hsn_codes with an empty or all-whitespace description returns the
\* empty sequence, for every top_k, having queried neither the similarity index nor
\* the keyword search.
C10_BlankQueryReturnsNothing ==
    (Returned("suggest_hsn_codes") /\ AllWhitespace(args.product_description)) =>
        /\ result = <<>>
        /\ index_queries = 0
        /\ keyword_searches = 0

\* a whitespace-only description, with an index that would have ranked the rows
C10_Witness ==
    /\ Returned("suggest_hsn_codes")
    /\ args.product_description = <<" ", " ">>
    /\ ~args.raises
    /\ Len(args.ranking) = Len(hsn_data)
    /\ index_queries = 0
    /\ result = <<>>

\* the position of a code's row in the catalog (its insertion index)
RowOf(hsn_code) == CHOOSE i \in 1..Len(hsn_data) : hsn_data[i].HSNCode = hsn_code

NonIncreasingScores(suggestions) ==
    \A i, j \in 1..Len(suggestions) :
        i < j => suggestions[i].similarity_score >= suggestions[j].similarity_score

TiesInCatalogOrder(suggestions) ==
    \A i, j \in 1..Len(suggestions) :
        (i < j /\ suggestions[i].similarity_score = suggestions[j].similarity_score) =>
            RowOf(suggestions[i].hsn_code) < RowOf(suggestions[j].hsn_code)

\* C11: with the default threshold, the results of one suggest_hsn_codes call are in
\* non-increasing order of similarity_score, and two results of equal score appear in
\* ascending order of their rows in the catalog.
C11_Original ==
    (Returned("suggest_hsn_codes") /\ min_similarity_threshold = DefaultThreshold) =>
        /\ NonIncreasingScores(result)
        /\ TiesInCatalogOrder(result)

\* what the keyword search alone returns for the description and top_k of the call
KeywordFallbackOfCall ==
    keyword_based_search(hsn_data, args.product_description, args.top_k).suggestions

\* C12: when the similarity-index query raises, neither suggest_hsn_codes nor
\* suggest_with_explanation lets the error reach the caller: each returns a normal
\* result whose suggestions are those of the keyword fallback.
C12_Original ==
    /\ (Returned("suggest_hsn_codes") /\ args.raises
        /\ ~IsBlank(args.product_description)) =>
           result = KeywordFallbackOfCall
    /\ (Returned("suggest_with_explanation") /\ args.raises
        /\ ~IsBlank(args.product_description)) =>
           /\ ~result.raised
           /\ result.suggestions = KeywordFallbackOfCall

ScenarioCatalog == {Code01, Code0101, Code010110}

\* C13: over the catalog of the codes 01, 0101 and 010110, full_validation("010110")
\* has overall_valid true and no missing parents, full_validation("010199") has
\* exists false and overall_valid false, and full_validation("abc") has format_valid
\* false and overall_valid false.
C13_Scenario ==
    (Returned("full_validation") /\ CatalogCodes = ScenarioCatalog) =>
        /\ args.hsn_code = Code010110 =>
               /\ result.overall_valid
               /\ result.validation_details.hierarchical.missing_parents = <<>>
        /\ args.hsn_code = <<"0", "1", "0", "1", "9", "9">> =>
               /\ ~result.exists
               /\ ~result.overall_valid
        /\ args.hsn_code = <<"a", "b", "c">> =>
               /\ ~result.format_valid
               /\ ~result.overall_valid

\* full_validation("010199") has returned over the scenario's catalog, both parents
\* of the code found
C13_Witness ==
    /\ Returned("full_validation")
    /\ CatalogCodes = ScenarioCatalog
    /\ Len(hsn_data) = 3
    /\ args.hsn_code = <<"0", "1", "0", "1", "9", "9">>
    /\ result.hierarchical_valid
    /\ ~result.exists

\* the rows whose description is, verbatim, the description the call was made with
VerbatimRows == {i \in 1..Len(descriptions) : descriptions[i] = args.product_description}

IndexQueried(operation) ==
    Returned(operation) /\ ~args.raises /\ ~IsBlank(args.product_description)

ScoresHighest(i) ==
    \A j \in 1..Len(args.similarities) : args.similarities[i] >= args.similarities[j]

\* the description keeps a term of the vocabulary
HasVocabularyTerm(i) == \E term \in vocabulary : description_vectors[i][term] > 0

\* no other description has the same terms in the same proportions
NoParallelDescription(i) ==
    \A j \in 1..Len(description_vectors) :
        j # i => ~SameDirection(description_vectors[j], description_vectors[i])

\* C14 as stated: when a description of the catalog is used verbatim as the query, its
\* own row is ranked first by the index and scores at least as high as every other
\* row, also when another row has the same description or when the description has
\* only stop words or pruned terms.
C14_Original ==
    IndexQueried("suggest_hsn_codes") =>
        \A i \in VerbatimRows : args.ranking[1] = i /\ ScoresHighest(i)

\* C14: when a description of the catalog is used verbatim as the query, its own row
\* scores at least as high as every other row; and when the description keeps a term
\* of the vocabulary and no other row has a vector of the same direction, its row is
\* ranked first by the index and, with the default threshold, is the first suggestion
\* returned.
C14_SelfSimilarityMaximal ==
    IndexQueried("suggest_hsn_codes") =>
        \A i \in VerbatimRows :
            /\ ScoresHighest(i)
            /\ (HasVocabularyTerm(i) /\ NoParallelDescription(i)) =>
                   /\ args.ranking[1] = i
                   /\ min_similarity_threshold = DefaultThreshold =>
                          /\ result # <<>>
                          /\ result[1].hsn_code = hsn_data[i].HSNCode
                          /\ result[1].match_type = "ml_similarity"

\* the first two rows have the same description and it was the query: both score 1.0,
\* no row scores higher, and the second is ranked before the first and is the first
\* suggestion
C14_Witness ==
    /\ IndexQueried("suggest_hsn_codes")
    /\ VerbatimRows = {1, 2}
    /\ HasVocabularyTerm(1)
    /\ ~NoParallelDescription(1)
    /\ args.similarities[1] = MaxScore
    /\ args.similarities[2] = MaxScore
    /\ ScoresHighest(1)
    /\ args.ranking[1] = 2
    /\ result # <<>>
    /\ result[1].hsn_code = hsn_data[2].HSNCode

\* what the call of a caller returns when it runs with no other call in progress
RunAlone(call) ==
    CASE call.op = "full_validation" -> full_validation(hsn_lookup, call.args.hsn_code)
      [] call.op = "validate_multiple" -> validate_multiple(hsn_lookup, call.args.hsn_codes)
      [] call.op = "suggest_hsn_codes" ->
             suggest_hsn_codes(hsn_data, min_similarity_threshold,
                               call.args.product_description, call.args.top_k,
                               call.local.raises, call.local.similarities,
                               call.local.ranking).suggestions
      [] call.op = "suggest_with_explanation" ->
             explanation(call.args.product_description,
                         suggest_hsn_codes(hsn_data, min_similarity_threshold,
                                           call.args.product_description, call.args.top_k,
                                           call.local.raises, call.local.similarities,
                                           call.local.ranking).suggestions,
                         call.local.analysis)

ResultsAsAlone ==
    \A c \in Callers : calls[c].pc = "done" => calls[c].result = RunAlone(calls[c])

\* C15: with full_validation, validate_multiple, suggest_hsn_codes and
\* suggest_with_explanation calls of several callers interleaved step by step on the
\* shared validator and suggester, no step of a call changes the state the calls read
\* (catalog, lookup, index, threshold), and every call returns what it returns when it
\* runs alone.
C15_CallsIsolated ==
    /\ []ResultsAsAlone
    /\ [][Shared' = Shared]_vars

\* a suggestion call has returned its results while a full_validation call of another
\* caller, begun before, is between its existence and hierarchy checks
C15_Witness ==
    \E c, d \in Callers :
        /\ c # d
        /\ calls[c].pc = "done"
        /\ calls[c].op = "suggest_hsn_codes"
        /\ Len(calls[c].result) = 2
        /\ calls[d].pc = "hierarchy"

\* C16: when validate_format fails, full_validation returns exists, hierarchical_valid
\* and overall_valid false with a non-empty error and makes no catalog lookup, neither
\* for the code nor for a parent prefix; a call that makes a lookup has passed the
\* format check.
C16_FormatFailureShortCircuits ==
    Returned("full_validation") =>
        /\ ~validate_format(args.hsn_code).valid =>
               /\ ~result.exists
               /\ ~result.hierarchical_valid
               /\ ~result.overall_valid
               /\ "error" \in DOMAIN result
               /\ result.error # <<>>
               /\ catalog_lookups = 0
        /\ catalog_lookups > 0 => validate_format(args.hsn_code).valid

\* full_validation of a code of three digits that is in the catalog has returned
C16_Witness ==
    /\ Returned("full_validation")
    /\ args.hsn_code = Code011
    /\ InCatalog(Code011)
    /\ ~result.format_valid
    /\ ~result.exists
    /\ catalog_lookups = 0

\* the whitespace tokens of the description that are longer than two characters
LongTokens(product_description) ==
    LET tokens == Split(product_description)
    IN  {Lower(tokens[i]) : i \in {j \in 1..Len(tokens) : Len(tokens[j]) > 2}}

\* the description of the row contains one of the long tokens, whatever the case
MatchesToken(i, product_description) ==
    \E token \in LongTokens(product_description) :
        Contains(Lower(hsn_data[i].Description), token)

\* C17: when suggest_hsn_codes returns fewer than top_k results, no row of the catalog
\* outside the results has a description containing, whatever the case, a whitespace
\* token of the query longer than 2 characters: the keyword search goes on adding
\* matches until top_k results are reached or the tokens are exhausted.
C17_Original ==
    (Returned("suggest_hsn_codes") /\ Len(result) < args.top_k) =>
        \A i \in 1..Len(hsn_data) :
            hsn_data[i].HSNCode \notin Codes(result) =>
                ~MatchesToken(i, args.product_description)

\* the confidence level of a score: High from 0.7, Medium from 0.4 to below 0.7,
\* Low from 0.2 to below 0.4, Very Low below 0.2
Bucket(score) ==
    CASE score >= 70 -> "High"
      [] score >= 40 /\ score < 70 -> "Medium"
      [] score >= 20 /\ score < 40 -> "Low"
      [] score < 20 -> "Very Low"

VectorResults(suggestions) ==
    {i \in 1..Len(suggestions) : suggestions[i].match_type = "ml_similarity"}

\* C18: every result of suggest_hsn_codes that comes from the similarity ranking has
\* the score the index gave its row, that score is at least min_similarity_threshold,
\* and its confidence_level is the level of the score; so no row scoring below the
\* threshold is returned as a similarity result.
C18_VectorResultsAboveThreshold ==
    Returned("suggest_hsn_codes") =>
        \A i \in VectorResults(result) :
            /\ ~args.raises
            /\ result[i].similarity_score = args.similarities[RowOf(result[i].hsn_code)]
            /\ result[i].similarity_score >= min_similarity_threshold
            /\ result[i].confidence_level = Bucket(result[i].similarity_score)

\* with the threshold raised to 0.6, a row scoring 0.7 was returned as a High
\* similarity result and the other row, scoring 0.4, was not
C18_Witness ==
    /\ Returned("suggest_hsn_codes")
    /\ min_similarity_threshold = 60
    /\ args.top_k = 2
    /\ args.similarities = <<40, 70>>
    /\ VectorResults(result) = {1}
    /\ result[1].similarity_score = 70
    /\ result[1].confidence_level = "High"

KeywordResults(suggestions) ==
    {i \in 1..Len(suggestions) : suggestions[i].match_type = "keyword_search"}

\* C19: every result of suggest_hsn_codes that comes from the keyword search has
\* similarity_score 0.1 and confidence_level Low, and the description of its row
\* contains, whatever the case, a whitespace token of the query longer than 2
\* characters; it comes after every similarity result; and when the similarity ranking
\* alone gave top_k results, no keyword search is made and no keyword result returned.
C19_KeywordResults ==
    Returned("suggest_hsn_codes") =>
        /\ \A i \in KeywordResults(result) :
               /\ result[i].similarity_score = 10
               /\ result[i].confidence_level = "Low"
               /\ MatchesToken(RowOf(result[i].hsn_code), args.product_description)
               /\ result[i].description = hsn_data[RowOf(result[i].hsn_code)].Description
               /\ \A j \in VectorResults(result) : j < i
        /\ Cardinality(VectorResults(result)) >= args.top_k =>
               /\ KeywordResults(result) = {}
               /\ keyword_searches = 0

\* with the threshold at 0.6, the row scoring 0.7 is a similarity result and the row
\* scoring 0.4, below the threshold, follows it as a keyword result with score 0.1
C19_Witness ==
    /\ Returned("suggest_hsn_codes")
    /\ ~args.raises
    /\ Len(result) = 2
    /\ VectorResults(result) = {1}
    /\ KeywordResults(result) = {2}
    /\ result[1].similarity_score = 70
    /\ args.similarities[RowOf(result[2].hsn_code)] = 40
    /\ result[2].similarity_score = 10

\* the rows whose description contains the keyword, whatever the case, in catalog order
RowsContaining(keyword) ==
    LET Matches(i) == Contains(Lower(hsn_data[i].Description), Strip(Lower(keyword)))
    IN  SelectSeq([i \in 1..Len(hsn_data) |-> i], Matches)

\* rows appended to those listed already, each row once
RECURSIVE AppendNew(_, _)
AppendNew(listed, rows) ==
    IF rows = <<>> THEN listed
    ELSE AppendNew(IF \E k \in 1..Len(listed) : listed[k] = Head(rows)
                   THEN listed ELSE Append(listed, Head(rows)),
                   Tail(rows))

\* the rows matching the keywords longer than 2 characters, keyword after keyword
RECURSIVE RowsOfKeywords(_, _)
RowsOfKeywords(keywords, listed) ==
    IF keywords = <<>> THEN listed
    ELSE RowsOfKeywords(Tail(keywords),
                        IF Len(Head(keywords)) > 2
                        THEN AppendNew(listed, RowsContaining(Head(keywords)))
                        ELSE listed)

\* the result is made of keyword results only, for exactly these rows in this order
KeywordResultsFor(suggestions, rows) ==
    /\ Len(suggestions) = Len(rows)
    /\ \A i \in 1..Len(rows) :
           /\ suggestions[i].hsn_code = hsn_data[rows[i]].HSNCode
           /\ suggestions[i].description = hsn_data[rows[i]].Description
           /\ suggestions[i].match_type = "keyword_search"
           /\ suggestions[i].similarity_score = 10

\* C20 as stated: when the similarity-index query raises inside suggest_hsn_codes, the
\* result holds no similarity result and is the first top_k rows found by searching the
\* descriptions for the whole query string as one search term, not for its tokens.
C20_Original ==
    (Returned("suggest_hsn_codes") /\ args.raises /\ ~IsBlank(args.product_description)) =>
        KeywordResultsFor(result,
            Take(RowsContaining(args.product_description), args.top_k))

\* C20 amended: when the similarity-index query raises inside suggest_hsn_codes, the
\* result holds no similarity result and is the first top_k rows found by searching the
\* descriptions for each whitespace token of the query longer than 2 characters, in
\* query order, each row once.
C20_FallbackSearchesTokens ==
    (Returned("suggest_hsn_codes") /\ args.raises) =>
        KeywordResultsFor(result,
            Take(RowsOfKeywords(Split(args.product_description), <<>>), args.top_k))

\* the index raised on 'live hen': no description contains the whole query, yet the row
\* of 'live' and then the row of 'hen' are returned
C20_Witness ==
    /\ Returned("suggest_hsn_codes")
    /\ args.raises
    /\ Len(Split(args.product_description)) = 2
    /\ RowsContaining(args.product_description) = <<>>
    /\ Len(result) = 2
    /\ Contains(Lower(result[1].description), Lower(Split(args.product_description)[1]))
    /\ ~Contains(Lower(result[1].description), Lower(Split(args.product_description)[2]))
    /\ Contains(Lower(result[2].description), Lower(Split(args.product_description)[2]))

\* the weight the analysed query gives a vocabulary term
WeightOf(term) ==
    args.query_features[CHOOSE i \in 1..Len(args.feature_names) : args.feature_names[i] = term]

\* C21: whenever suggest_with_explanation returns its record, the suggestions in it are
\* those suggest_hsn_codes gives for the same description and top_k, the suggestion
\* methods are exactly the distinct match types of these suggestions (none when there
\* is no suggestion), and the key terms are at most 10 terms of the vocabulary, each of
\* nonzero weight in the query vector (hence a term of the description asked about),
\* listed by non-increasing weight.
C21_ExplanationMatchesSuggestions ==
    (Returned("suggest_with_explanation") /\ ~result.raised) =>
        LET alone == suggest_hsn_codes(hsn_data, min_similarity_threshold,
                         args.product_description, args.top_k, args.raises,
                         args.similarities, args.ranking).suggestions
            terms == result.analysis.key_terms_identified
            asked == LET t == Terms(args.product_description)
                     IN  {t[k] : k \in 1..Len(t)}
        IN  /\ result.suggestions = alone
            /\ result.analysis.suggestion_methods =
                   {m \in {"ml_similarity", "keyword_search"} :
                       \E i \in 1..Len(alone) : alone[i].match_type = m}
            /\ (alone = <<>>) => result.analysis.suggestion_methods = {}
            /\ Len(terms) <= 10
            /\ \A j \in 1..Len(terms) :
                   /\ terms[j] \in vocabulary
                   /\ terms[j] \in asked
                   /\ WeightOf(terms[j]) > 0
            /\ \A i, j \in 1..Len(terms) :
                   i < j => WeightOf(terms[i]) >= WeightOf(terms[j])

\* a description with 11 terms of the vocabulary in it: ten key terms are listed, and
\* the two suggestions come one from the similarity ranking, one from the keyword
\* search
C21_Witness ==
    /\ Returned("suggest_with_explanation")
    /\ ~result.raised
    /\ Cardinality({i \in 1..Len(args.query_features) : args.query_features[i] > 0}) = 11
    /\ Len(result.analysis.key_terms_identified) = 10
    /\ Len(result.suggestions) = 2
    /\ result.analysis.suggestion_methods = {"ml_similarity", "keyword_search"}

\* a call of update_similarity_threshold returns in this step
UpdateReturns == pc = "idle" /\ op' = "update_similarity_threshold"

\* C22: update_similarity_threshold(t) sets the threshold to t when 0.0 <= t <= 1.0,
\* both ends included, and otherwise raises ValueError and leaves the threshold as it
\* was; nothing else changes the threshold.  So the threshold starts at the default
\* 0.1, is always within 0.0 .. 1.0, and is the last accepted value.
C22_ThresholdUpdates ==
    /\ min_similarity_threshold = 10
    /\ [](min_similarity_threshold \in 0..100)
    /\ [][/\ UpdateReturns =>
               IF 0 <= args'.new_threshold /\ args'.new_threshold <= 100
               THEN /\ min_similarity_threshold' = args'.new_threshold
                    /\ ~result'.raised
               ELSE /\ min_similarity_threshold' = min_similarity_threshold
                    /\ result'.raised
          /\ min_similarity_threshold' # min_similarity_threshold => UpdateReturns
         ]_vars

\* the threshold had been set to 0.0, the lower end, and the call with 1.1 raised
\* and left it there
C22_Witness ==
    /\ Returned("update_similarity_threshold")
    /\ args.new_threshold = 110
    /\ result.raised
    /\ min_similarity_threshold = 0

\* C23: whatever threshold update_similarity_threshold has accepted, values below 0.1
\* included, the results of a suggest_hsn_codes call are in non-increasing order of
\* similarity_score: no similarity result is followed by a keyword result of higher
\* score.
C23_Original ==
    Returned("suggest_hsn_codes") =>
        /\ NonIncreasingScores(result)
        /\ \A i \in VectorResults(result), j \in KeywordResults(result) :
               i < j => result[i].similarity_score >= result[j].similarity_score

\* C24: overall validity is closed under prefixes: when full_validation reports a code
\* of more than 2 digits valid overall, full_validation of each of its prefixes of
\* lengths 2, 4, 6 strictly shorter than the code reports it valid overall as well:
\* format-valid, existing, and hierarchy-valid.
C24_ValidityPrefixClosed ==
    (/\ Returned("full_validation")
     /\ result.overall_valid
     /\ Len(DigitsOnly(args.hsn_code)) > 2) =>
        \A i \in 1..Len(RequiredPrefixes(DigitsOnly(args.hsn_code))) :
            LET p == RequiredPrefixes(DigitsOnly(args.hsn_code))[i]
                r == full_validation(hsn_lookup, p)
            IN  /\ r.format_valid
                /\ r.exists
                /\ r.hierarchical_valid
                /\ r.overall_valid
                /\ r.cleaned_code = p

\* an 8-digit code is valid overall: its three prefixes are in the catalog with it
C24_Witness ==
    /\ Returned("full_validation")
    /\ result.overall_valid
    /\ Len(DigitsOnly(args.hsn_code)) = 8
    /\ Len(RequiredPrefixes(DigitsOnly(args.hsn_code))) = 3
    /\ Len(hsn_data) = 4

=============================================================================
